---------------------------- MODULE Spec2Model ----------------------------
(***************************************************************************)
(* Model of the PokeAPI data fetcher: the input validator                  *)
(* (InputValidator.validate_pokemon_name, duplicated in pokedex_gui.py and *)
(* request_API_From_PokeAPI.py), the command-line caller get_pokemon_info  *)
(* and the GUI search flow of PokedexApp (search_pokemon, the fetch        *)
(* thread, and the callbacks it schedules on the Tk event loop).           *)
(*                                                                         *)
(* A string is a sequence of Unicode code points (Python str).             *)
(***************************************************************************)
EXTENDS Integers, Sequences, FiniteSets, TLC

VARIABLES
    name,           \* validator run: the raw input typed so far
    typed,          \* validator run: how many tokens were typed
    pc,             \* validator run: "input", "validated" or "revalidated"
    result,         \* validator run: validate_pokemon_name(name)
    again,          \* validator run: validate_pokemon_name(result.sanitized_name)
    search_entry,   \* GUI: the text of self.search_entry
    status_label,   \* GUI: the text of self.status_label
    button_state,   \* GUI: the state of self.search_button
    threads,        \* GUI: the fetch threads started, in order of start
    after_queue,    \* GUI: the callbacks scheduled with self.after(0, ...)
    program,        \* which program runs: "gui" (pokedex_gui.py), "script"
                    \* (request_API_From_PokeAPI.py) or "validator" (the run)
    http_gets,      \* the requests.get calls made
    shown,          \* GUI: the fetches whose result callback has run
    completed,      \* GUI: the fetches whose re-enable callback has run
    script_pc,      \* script: "start" or "done"
    script_name,    \* script: the name get_pokemon_info was called with
    script_return   \* script: what get_pokemon_info returned

validatorVars == <<name, typed, pc, result, again>>
scriptVars == <<script_pc, script_name, script_return>>
appVars == <<program, search_entry, status_label, button_state, threads,
             after_queue, http_gets, shown, completed, scriptVars>>
vars == <<validatorVars, appVars>>

----------------------------------------------------------------------------
(* Bounds of the model *)

\* how many tokens are typed after the initial text
MaxTokens == 2

\* how many fetch threads the GUI run starts
MaxSearches == 2

----------------------------------------------------------------------------
(* Python's str and re primitives, on code points *)

\* str.isspace(), which is also the class \s of a str pattern: what
\* str.strip() removes and what [\s] in VALID_NAME_PATTERN accepts
IsSpace(c) ==
    \/ c \in 9..13
    \/ c \in 28..32
    \/ c \in {133, 160, 5760}
    \/ c \in 8192..8202
    \/ c \in {8232, 8233, 8239, 8287, 12288}

\* the class \w of a str pattern (Unicode alphanumerics and underscore), for
\* ASCII, Latin-1 and the letters U+0130, U+0131, U+017F, U+212A
IsWord(c) ==
    \/ c \in 48..57
    \/ c \in 65..90
    \/ c \in 97..122
    \/ c = 95
    \/ c \in {170, 181, 186}
    \/ c \in (192..255) \ {215, 247}
    \/ c \in {304, 305, 383, 8490}

\* str.lower() of one character, for the same code points: ASCII and Latin-1
\* capitals, KELVIN SIGN (to k) and I WITH DOT ABOVE (to i + combining dot)
LowerChar(c) ==
    IF c \in 65..90 THEN <<c + 32>>
    ELSE IF c \in (192..222) \ {215} THEN <<c + 32>>
    ELSE IF c = 8490 THEN <<107>>
    ELSE IF c = 304 THEN <<105, 775>>
    ELSE <<c>>

RECURSIVE Lower(_)
\* str.lower()
Lower(s) == IF s = <<>> THEN <<>> ELSE LowerChar(Head(s)) \o Lower(Tail(s))

\* the mutant of Strip: at most one whitespace character is removed per side
StripOneEach(s) ==
    LET a == IF s # <<>> /\ IsSpace(s[1]) THEN Tail(s) ELSE s
    IN  IF a # <<>> /\ IsSpace(a[Len(a)]) THEN SubSeq(a, 1, Len(a) - 1) ELSE a

\* str.strip(): leading and trailing whitespace removed
Strip(s) ==
    LET keep == {i \in 1..Len(s) : ~IsSpace(s[i])}
    IN  IF keep = {} THEN <<>>
        ELSE SubSeq(s, CHOOSE i \in keep : \A j \in keep : i <= j,
                       CHOOSE i \in keep : \A j \in keep : j <= i)

\* a literal pattern character p (a capital letter) against c under
\* re.IGNORECASE: both cases, plus the Unicode case equivalents of I, S and K
CaseEq(p, c) ==
    \/ c = p
    \/ c = p + 32
    \/ p = 73 /\ c \in {304, 305}
    \/ p = 83 /\ c = 383
    \/ p = 75 /\ c = 8490

\* \b at position i of s (between s[i-1] and s[i])
WordBoundary(s, i) ==
    LET before == i > 1 /\ IsWord(s[i - 1])
        after  == i <= Len(s) /\ IsWord(s[i])
    IN  before # after

\* the literal w occurs in s at position i, case-insensitively
MatchesAt(w, s, i) ==
    /\ i + Len(w) - 1 <= Len(s)
    /\ \A k \in 1..Len(w) : CaseEq(w[k], s[i + k - 1])

\* re.search of a literal two-character sequence
HasPair(s, a, b) == \E i \in 1..(Len(s) - 1) : s[i] = a /\ s[i + 1] = b

\* re.search of a character class
HasChar(s, class) == \E i \in 1..Len(s) : s[i] \in class

----------------------------------------------------------------------------
(* InputValidator *)

MAX_INPUT_LENGTH == 50

\* ^[a-zA-Z0-9\-\s]+$ : one or more of letters, digits, hyphen, whitespace
ValidNameChar(c) ==
    \/ c \in 97..122
    \/ c \in 65..90
    \/ c \in 48..57
    \/ c = 45
    \/ IsSpace(c)

\* VALID_NAME_PATTERN.match(s)
VALID_NAME_PATTERN_match(s) ==
    /\ Len(s) >= 1
    /\ \A i \in 1..Len(s) : ValidNameChar(s[i])

\* the alternatives of the keyword pattern, as written (capitals)
SQL_KEYWORDS ==
    { <<83, 69, 76, 69, 67, 84>>,           \* SELECT
      <<73, 78, 83, 69, 82, 84>>,           \* INSERT
      <<85, 80, 68, 65, 84, 69>>,           \* UPDATE
      <<68, 69, 76, 69, 84, 69>>,           \* DELETE
      <<68, 82, 79, 80>>,                   \* DROP
      <<84, 82, 85, 78, 67, 65, 84, 69>>,   \* TRUNCATE
      <<65, 76, 84, 69, 82>>,               \* ALTER
      <<67, 82, 69, 65, 84, 69>>,           \* CREATE
      <<69, 88, 69, 67>>,                   \* EXEC
      <<85, 78, 73, 79, 78>>,               \* UNION
      <<79, 82>>,                           \* OR
      <<65, 78, 68>> }                      \* AND

\* the mutant of KeywordSearch: the keywords without \b, so a keyword inside
\* a longer word matches too
KeywordSubstring(s) ==
    \E w \in SQL_KEYWORDS : \E i \in 1..Len(s) : MatchesAt(w, s, i)

\* re.search(r'\b(SELECT|...|OR|AND)\b', s, re.IGNORECASE)
KeywordSearch(s) ==
    \E w \in SQL_KEYWORDS : \E i \in 1..Len(s) :
        /\ MatchesAt(w, s, i)
        /\ WordBoundary(s, i)
        /\ WordBoundary(s, i + Len(w))

\* the characters of the single-character classes of DANGEROUS_PATTERNS:
\* [;'"`], [<>], [/\\] and [\x00-\x1f]
QuoteChars == {59, 39, 34, 96}
AngleChars == {60, 62}
PathChars == {47, 92}
ControlChars == 0..31

\* the mutant of MatchesDangerous: the patterns are searched in the
\* stripped input
DangerousInStripped(s) ==
    LET t == Strip(s)
    IN  \/ HasChar(t, QuoteChars)
        \/ HasPair(t, 45, 45)
        \/ HasPair(t, 47, 42)
        \/ HasPair(t, 42, 47)
        \/ KeywordSearch(t)
        \/ HasChar(t, AngleChars)
        \/ HasPair(t, 46, 46)
        \/ HasChar(t, PathChars)
        \/ HasChar(t, ControlChars)

\* the loop over DANGEROUS_PATTERNS: some pattern is found in s
MatchesDangerous(s) ==
    \/ HasChar(s, QuoteChars)       \* [;\'\"\`]
    \/ HasPair(s, 45, 45)           \* --
    \/ HasPair(s, 47, 42)           \* /\*
    \/ HasPair(s, 42, 47)           \* \*/
    \/ KeywordSearch(s)             \* \b(SELECT|...)\b
    \/ HasChar(s, AngleChars)       \* [<>]
    \/ HasPair(s, 46, 46)           \* \.\.
    \/ HasChar(s, PathChars)        \* [/\\]
    \/ HasChar(s, ControlChars)     \* [\x00-\x1f]

\* the four error messages (the accented e of the source written as e)
MsgEmpty == "Please enter a Pokemon name"
MsgTooLong == "Input too long (max 50 characters)"
MsgDangerous == "Invalid characters detected in input"
MsgNotAllowed == "Pokemon name can only contain letters, numbers, and hyphens"

\* the returned tuple (is_valid, sanitized_name, error_message)
Result(v, s, e) == [is_valid |-> v, sanitized_name |-> s, error_message |-> e]

\* the mutant of validate_pokemon_name: the allow-list is checked before the
\* deny-list
validate_allow_first(raw) ==
    IF raw = <<>> \/ Strip(raw) = <<>> THEN Result(FALSE, <<>>, MsgEmpty)
    ELSE LET sanitized == Lower(Strip(raw))
         IN  IF Len(sanitized) > MAX_INPUT_LENGTH
                 THEN Result(FALSE, <<>>, MsgTooLong)
             ELSE IF ~VALID_NAME_PATTERN_match(sanitized)
                 THEN Result(FALSE, <<>>, MsgNotAllowed)
             ELSE IF MatchesDangerous(raw)
                 THEN Result(FALSE, <<>>, MsgDangerous)
             ELSE Result(TRUE, sanitized, "")

\* the mutant of validate_pokemon_name: the length of the raw input is
\* checked
validate_length_of_raw(raw) ==
    IF raw = <<>> \/ Strip(raw) = <<>> THEN Result(FALSE, <<>>, MsgEmpty)
    ELSE LET sanitized == Lower(Strip(raw))
         IN  IF Len(raw) > MAX_INPUT_LENGTH
                 THEN Result(FALSE, <<>>, MsgTooLong)
             ELSE IF MatchesDangerous(raw)
                 THEN Result(FALSE, <<>>, MsgDangerous)
             ELSE IF ~VALID_NAME_PATTERN_match(sanitized)
                 THEN Result(FALSE, <<>>, MsgNotAllowed)
             ELSE Result(TRUE, sanitized, "")

\* the mutant of validate_pokemon_name: a rejected input keeps its
\* sanitized text in the result
validate_keeps_text(raw) ==
    IF raw = <<>> \/ Strip(raw) = <<>> THEN Result(FALSE, <<>>, MsgEmpty)
    ELSE LET sanitized == Lower(Strip(raw))
         IN  IF Len(sanitized) > MAX_INPUT_LENGTH
                 THEN Result(FALSE, sanitized, MsgTooLong)
             ELSE IF MatchesDangerous(raw)
                 THEN Result(FALSE, sanitized, MsgDangerous)
             ELSE IF ~VALID_NAME_PATTERN_match(sanitized)
                 THEN Result(FALSE, sanitized, MsgNotAllowed)
             ELSE Result(TRUE, sanitized, "")

\* InputValidator.validate_pokemon_name(name)
validate_pokemon_name(raw) ==
    IF raw = <<>> \/ Strip(raw) = <<>> THEN Result(FALSE, <<>>, MsgEmpty)
    ELSE LET sanitized == Lower(Strip(raw))
         IN  IF Len(sanitized) > MAX_INPUT_LENGTH
                 THEN Result(FALSE, <<>>, MsgTooLong)
             ELSE IF MatchesDangerous(raw)
                 THEN Result(FALSE, <<>>, MsgDangerous)
             ELSE IF ~VALID_NAME_PATTERN_match(sanitized)
                 THEN Result(FALSE, <<>>, MsgNotAllowed)
             ELSE Result(TRUE, sanitized, "")

----------------------------------------------------------------------------
(* The validator run: an input is typed token by token, validated, and an  *)
(* accepted name is validated again.                                       *)

\* n copies of the letter a
Fill(n) == [i \in 1..n |-> 97]

\* the text the input starts from: nothing, the name the script asks for
\* (pokemon_name = "pikachu"), or a name one character short of the limit
InitialTexts ==
    { <<>>,
      <<112, 105, 107, 97, 99, 104, 117>>,
      Fill(MAX_INPUT_LENGTH - 1) }

\* what is typed in one step
Tokens ==
    { <<97>>,                \* a
      <<90>>,                \* Z
      <<50>>,                \* 2
      <<45>>,                \* -
      <<32>>,                \* space
      <<160>>,               \* NO-BREAK SPACE
      <<9>>,                 \* TAB
      <<1>>,                 \* control character U+0001
      <<59>>,                \* ;
      <<39>>,                \* '
      <<34>>,                \* "
      <<96>>,                \* `
      <<60>>,                \* <
      <<62>>,                \* >
      <<47>>,                \* /
      <<92>>,                \* \
      <<42>>,                \* *
      <<46>>,                \* .
      <<95>>,                \* _
      <<233>>,               \* e with acute accent
      <<8490>>,              \* KELVIN SIGN
      <<304>>,               \* CAPITAL I WITH DOT ABOVE
      <<79, 114>>,           \* Or
      <<97, 110, 100>>,      \* and
      <<100, 82, 111, 80>> } \* dRoP

NoResult == Result(FALSE, <<>>, "(none)")

ValidatorInit ==
    /\ name \in InitialTexts
    /\ typed = 0
    /\ pc = "input"
    /\ result = NoResult
    /\ again = NoResult

\* one more token is typed
TypeToken(t) ==
    /\ pc = "input"
    /\ typed < MaxTokens
    /\ name' = name \o t
    /\ typed' = typed + 1
    /\ UNCHANGED <<pc, result, again>>

\* is_valid, sanitized_name, error_message = validate_pokemon_name(name)
Validate ==
    /\ pc = "input"
    /\ result' = validate_pokemon_name(name)
    /\ pc' = "validated"
    /\ UNCHANGED <<name, typed, again>>

\* validate_pokemon_name(sanitized_name), for an accepted name
Revalidate ==
    /\ pc = "validated"
    /\ result.is_valid
    /\ again' = validate_pokemon_name(result.sanitized_name)
    /\ pc' = "revalidated"
    /\ UNCHANGED <<name, typed, result>>

----------------------------------------------------------------------------
(* The callers: get_pokemon_info (the script) and PokedexApp (the GUI)     *)

\* BASE_URL of pokedex_gui.py; base_url + "pokemon/" of the script
BASE_URL == "https://pokeapi.co/api/v2/pokemon/"

\* f"{BASE_URL}{name}" and f"{base_url}pokemon/{sanitized_name}/"
GuiUrl(segment) == [base |-> BASE_URL, segment |-> segment, slash |-> FALSE]
ScriptUrl(segment) == [base |-> BASE_URL, segment |-> segment, slash |-> TRUE]

\* what the user types into the search entry, which starts empty
EntryTexts ==
    { <<32, 77, 101, 119>>,         \* " Mew"
      <<109, 101, 119, 59>> }       \* "mew;"

\* what the script may pass to get_pokemon_info
ScriptNames == EntryTexts \cup {<<>>}

\* the outcomes of requests.get: status 200, another status, an exception
\* (of the request, or of response.json())
Outcomes == {"200", "other", "exception"}

AppInit ==
    /\ search_entry = <<>>
    /\ status_label = ""
    /\ button_state = "normal"
    /\ threads = <<>>
    /\ after_queue = <<>>
    /\ http_gets = {}
    /\ shown = {}
    /\ completed = {}
    /\ script_pc = "start"
    /\ script_name = <<>>
    /\ script_return = "(none)"

\* the user edits the search entry
SetEntry(text) ==
    /\ program = "gui"
    /\ search_entry' = text
    /\ search_entry # text
    /\ UNCHANGED <<program, status_label, button_state, threads,
                   after_queue, http_gets, shown, completed, scriptVars>>

\* the mutant of FetchArgs: the thread is given the raw text
FetchArgsRaw(raw_name, sanitized_name) == raw_name

\* args=(sanitized_name,) of the fetch thread
FetchArgs(raw_name, sanitized_name) == sanitized_name

\* PokedexApp.search_pokemon (a thread's record keeps the raw text it was
\* started for, beside the argument it was given)
search_pokemon ==
    LET raw_name == search_entry
        r == validate_pokemon_name(raw_name)
    IN  IF ~r.is_valid
        THEN /\ status_label' = r.error_message
             /\ UNCHANGED <<button_state, threads>>
        ELSE /\ Len(threads) < MaxSearches
             /\ status_label' = "Searching..."
             /\ button_state' = "disabled"
             /\ threads' = Append(threads,
                    [raw |-> raw_name,
                     name |-> FetchArgs(raw_name, r.sanitized_name),
                     pc |-> "start",
                     outcome |-> "(none)"])

\* a click on the search button: CTkButton runs its command unless disabled
ClickSearch ==
    /\ program = "gui"
    /\ button_state = "normal"
    /\ search_pokemon
    /\ UNCHANGED <<program, search_entry, after_queue, http_gets, shown,
                   completed, scriptVars>>

\* the Return key in the search entry: bound to search_pokemon
PressReturn ==
    /\ program = "gui"
    /\ search_pokemon
    /\ UNCHANGED <<program, search_entry, after_queue, http_gets, shown,
                   completed, scriptVars>>

\* fetch_pokemon_data: requests.get(f"{BASE_URL}{name}") is sent
SendRequest(i) ==
    /\ i \in 1..Len(threads)
    /\ threads[i].pc = "start"
    /\ http_gets' = http_gets \cup
            {[caller |-> "gui", thread |-> i, raw |-> threads[i].raw,
              url |-> GuiUrl(threads[i].name)]}
    /\ threads' = [threads EXCEPT ![i].pc = "waiting"]
    /\ UNCHANGED <<program, search_entry, status_label, button_state,
                   after_queue, shown, completed, scriptVars>>

\* fetch_pokemon_data: requests.get returns or raises
Respond(i, outcome) ==
    /\ i \in 1..Len(threads)
    /\ threads[i].pc = "waiting"
    /\ threads' = [threads EXCEPT ![i].pc = "responded",
                                  ![i].outcome = outcome]
    /\ UNCHANGED <<program, search_entry, status_label, button_state,
                   after_queue, http_gets, shown, completed, scriptVars>>

\* the callback of the try block and of the except clause
ResultCallback(i, outcome) ==
    IF outcome = "200"
        THEN [kind |-> "update_ui", thread |-> i, message |-> ""]
    ELSE IF outcome = "other"
        THEN [kind |-> "show_error", thread |-> i,
              message |-> "Pokemon not found"]
    ELSE [kind |-> "show_error", thread |-> i, message |-> "Network Error"]

\* the mutant of PcAfterResult: the re-enabling is the last statement of the
\* try block instead of a finally clause, so an exception skips it
PcAfterResultNoFinally(outcome) ==
    IF outcome = "exception" THEN "done" ELSE "finally"

\* where the thread goes after scheduling the result: the finally clause
PcAfterResult(outcome) == "finally"

\* fetch_pokemon_data: self.after(0, update_ui or show_error)
ScheduleResult(i) ==
    /\ i \in 1..Len(threads)
    /\ threads[i].pc = "responded"
    /\ after_queue' = Append(after_queue, ResultCallback(i, threads[i].outcome))
    /\ threads' = [threads EXCEPT ![i].pc = PcAfterResult(threads[i].outcome),
                                  ![i].outcome = "(none)"]
    /\ UNCHANGED <<program, search_entry, status_label, button_state,
                   http_gets, shown, completed, scriptVars>>

\* fetch_pokemon_data, finally: self.after(0, re-enable the search button)
ScheduleEnable(i) ==
    /\ i \in 1..Len(threads)
    /\ threads[i].pc = "finally"
    /\ after_queue' = Append(after_queue,
            [kind |-> "enable", thread |-> i, message |-> ""])
    /\ threads' = [threads EXCEPT ![i].pc = "done"]
    /\ UNCHANGED <<program, search_entry, status_label, button_state,
                   http_gets, shown, completed, scriptVars>>

\* the Tk event loop runs the oldest scheduled callback: update_ui,
\* show_error, or the re-enabling of the search button
RunCallback ==
    /\ after_queue # <<>>
    /\ LET cb == Head(after_queue)
       IN  /\ after_queue' = Tail(after_queue)
           /\ IF cb.kind = "update_ui"
              THEN /\ status_label' = "Pokemon Loaded!"
                   /\ shown' = shown \cup {cb.thread}
                   /\ UNCHANGED <<button_state, completed>>
              ELSE IF cb.kind = "show_error"
              THEN /\ status_label' = cb.message
                   /\ shown' = shown \cup {cb.thread}
                   /\ UNCHANGED <<button_state, completed>>
              ELSE /\ button_state' = "normal"
                   /\ completed' = completed \cup {cb.thread}
                   /\ UNCHANGED <<status_label, shown>>
    /\ UNCHANGED <<program, search_entry, threads, http_gets, scriptVars>>

\* get_pokemon_info(name) of the script
get_pokemon_info(raw, outcome) ==
    /\ program = "script"
    /\ script_pc = "start"
    /\ script_pc' = "done"
    /\ script_name' = raw
    /\ LET r == validate_pokemon_name(raw)
       IN  IF ~r.is_valid
           THEN /\ script_return' = "None"
                /\ UNCHANGED http_gets
           ELSE /\ http_gets' = http_gets \cup
                       {[caller |-> "script", thread |-> 0, raw |-> raw,
                         url |-> ScriptUrl(r.sanitized_name)]}
                /\ script_return' = IF outcome = "200" THEN "pokemon_data"
                                    ELSE "None"
    /\ UNCHANGED <<program, search_entry, status_label, button_state,
                   threads, after_queue, shown, completed>>

----------------------------------------------------------------------------
(* Specifications *)

Init == ValidatorInit /\ program = "validator" /\ AppInit

\* the validator run
Next ==
    \/ \E t \in Tokens : TypeToken(t) /\ UNCHANGED appVars
    \/ Validate /\ UNCHANGED appVars
    \/ Revalidate /\ UNCHANGED appVars

Spec == Init /\ [][Next]_vars

AppStart ==
    /\ name = <<>>
    /\ typed = 0
    /\ pc = "input"
    /\ result = NoResult
    /\ again = NoResult
    /\ program \in {"gui", "script"}
    /\ AppInit

\* the GUI and the script
AppNext ==
    \/ \E text \in EntryTexts : SetEntry(text) /\ UNCHANGED validatorVars
    \/ ClickSearch /\ UNCHANGED validatorVars
    \/ PressReturn /\ UNCHANGED validatorVars
    \/ \E i \in 1..MaxSearches : SendRequest(i) /\ UNCHANGED validatorVars
    \/ \E i \in 1..MaxSearches, o \in Outcomes :
            Respond(i, o) /\ UNCHANGED validatorVars
    \/ \E i \in 1..MaxSearches : ScheduleResult(i) /\ UNCHANGED validatorVars
    \/ \E i \in 1..MaxSearches : ScheduleEnable(i) /\ UNCHANGED validatorVars
    \/ RunCallback /\ UNCHANGED validatorVars
    \/ \E text \in ScriptNames, o \in Outcomes :
            get_pokemon_info(text, o) /\ UNCHANGED validatorVars

\* the Tk event loop keeps running due callbacks, and a thread whose request
\* has returned runs on to its end
AppFairness ==
    /\ WF_vars(RunCallback /\ UNCHANGED validatorVars)
    /\ \A i \in 1..MaxSearches :
        /\ WF_vars(ScheduleResult(i) /\ UNCHANGED validatorVars)
        /\ WF_vars(ScheduleEnable(i) /\ UNCHANGED validatorVars)

AppSpec == AppStart /\ [][AppNext]_vars /\ AppFairness

----------------------------------------------------------------------------
(* Properties of the validator, checked under Spec *)

Validated == pc # "input"

NonBlank(s) == \E i \in 1..Len(s) : ~IsSpace(s[i])

\* the length the validator measures
InLimit(s) == Len(Lower(Strip(s))) <= MAX_INPUT_LENGTH

\* a-z, 0-9, hyphen and the space character
PlainNameChars == (97..122) \cup (48..57) \cup {45, 32}

\* C1: an accepted input's sanitized name consists only of a-z, 0-9, hyphen
\* and the space character, and is the input trimmed and lowercased.
C1_SanitizedIsPlain ==
    (Validated /\ result.is_valid) =>
        /\ \A i \in 1..Len(result.sanitized_name) :
                result.sanitized_name[i] \in PlainNameChars
        /\ result.sanitized_name = Lower(Strip(name))

\* C2: the result is a well-formed triple in which exactly one of
\* "is_valid" and "error_message is non-empty" holds, and the sanitized name
\* is non-empty if and only if is_valid.
C2_ResultShape ==
    Validated =>
        /\ result.is_valid \in BOOLEAN
        /\ result.error_message \in
                {"", MsgEmpty, MsgTooLong, MsgDangerous, MsgNotAllowed}
        /\ result.is_valid # (result.error_message # "")
        /\ (result.sanitized_name # <<>>) <=> result.is_valid

C2_Witness ==
    /\ pc = "validated"
    /\ result.is_valid
    /\ result.sanitized_name # name

\* C3 as stated: a non-blank input whose untrimmed length exceeds 50 is
\* rejected as too long.
C3_RawLengthRejected ==
    (Validated /\ NonBlank(name) /\ Len(name) > MAX_INPUT_LENGTH) =>
        /\ ~result.is_valid
        /\ result.error_message = MsgTooLong

\* C3 as amended: a non-blank input is rejected as too long exactly when its
\* length after trimming and lowercasing exceeds 50; an input that is longer
\* than 50 only because of surrounding whitespace is not.
C3_SanitizedLengthRejected ==
    (Validated /\ NonBlank(name)) =>
        /\ result.error_message = MsgTooLong <=> ~InLimit(name)
        /\ ~InLimit(name) => ~result.is_valid

C3_Witness ==
    /\ pc = "validated"
    /\ Len(name) > MAX_INPUT_LENGTH
    /\ InLimit(name)
    /\ result.is_valid

\* the four checks, each on its own
FailsEmpty(s) == ~NonBlank(s)
FailsLength(s) == ~InLimit(s)
FailsDeny(s) == MatchesDangerous(s)
FailsAllow(s) == ~VALID_NAME_PATTERN_match(Lower(Strip(s)))

\* C4: the message is that of the earliest failing check in the order
\* empty, length, deny-list, allow-list.
C4_FirstFailingCheck ==
    Validated =>
        result.error_message =
            IF FailsEmpty(name) THEN MsgEmpty
            ELSE IF FailsLength(name) THEN MsgTooLong
            ELSE IF FailsDeny(name) THEN MsgDangerous
            ELSE IF FailsAllow(name) THEN MsgNotAllowed
            ELSE ""

C4_Witness ==
    /\ pc = "validated"
    /\ ~FailsEmpty(name) /\ ~FailsLength(name)
    /\ FailsDeny(name) /\ FailsAllow(name)
    /\ result.error_message = MsgDangerous

\* ; ' " ` < > / \ and the control characters 0x00-0x1F
DeniedChars == {59, 39, 34, 96, 60, 62, 47, 92} \cup (0..31)

HasDenied(s) ==
    \/ \E i \in 1..Len(s) : s[i] \in DeniedChars
    \/ \E i \in 1..(Len(s) - 1) : s[i] = 45 /\ s[i + 1] = 45
    \/ \E i \in 1..(Len(s) - 1) : s[i] = 46 /\ s[i + 1] = 46

\* C5: a non-blank input within the limit that contains a denied character
\* or sequence anywhere, surrounding whitespace included, is rejected with
\* the invalid-characters message.
C5_DenyListOnRawInput ==
    (Validated /\ NonBlank(name) /\ InLimit(name) /\ HasDenied(name)) =>
        /\ ~result.is_valid
        /\ result.error_message = MsgDangerous

C5_Witness ==
    /\ pc = "validated"
    /\ NonBlank(name) /\ InLimit(name)
    /\ HasDenied(name)
    /\ ~HasDenied(Strip(name))
    /\ result.error_message = MsgDangerous

AsciiLetters == (65..90) \cup (97..122)
AsciiDigits == 48..57

\* keyword w, in any letter case, at position i of s
KeywordAt(w, s, i) ==
    /\ i >= 1
    /\ i + Len(w) - 1 <= Len(s)
    /\ \A k \in 1..Len(w) : s[i + k - 1] \in {w[k], w[k] + 32}

\* the occurrence is delimited on both sides by the start or end of the
\* input, a space or a hyphen
Standalone(w, s, i) ==
    /\ i = 1 \/ s[i - 1] \in {32, 45}
    /\ i + Len(w) > Len(s) \/ s[i + Len(w)] \in {32, 45}

\* the occurrence continues in a letter or digit on some side
InsideLongerRun(w, s, i) ==
    \/ i > 1 /\ s[i - 1] \in AsciiLetters \cup AsciiDigits
    \/ i + Len(w) <= Len(s) /\ s[i + Len(w)] \in AsciiLetters \cup AsciiDigits

HasStandaloneKeyword(s) ==
    \E w \in SQL_KEYWORDS : \E i \in 1..Len(s) :
        KeywordAt(w, s, i) /\ Standalone(w, s, i)

KeywordsOnlyInside(s) ==
    \A w \in SQL_KEYWORDS : \A i \in 1..Len(s) :
        KeywordAt(w, s, i) => InsideLongerRun(w, s, i)

OnlyNameChars(s) ==
    \A i \in 1..Len(s) : s[i] \in AsciiLetters \cup AsciiDigits \cup {45, 32}

\* a standalone keyword is rejected
C6_StandaloneRejected ==
    (Validated /\ NonBlank(name) /\ InLimit(name)
        /\ HasStandaloneKeyword(name)) =>
            /\ ~result.is_valid
            /\ result.error_message = MsgDangerous

\* C6 as stated: a standalone keyword is rejected, and an input of letters,
\* digits, hyphens and spaces whose keywords all lie inside longer runs of
\* letters or digits is accepted.
C6_KeywordsExactlyStandalone ==
    /\ C6_StandaloneRejected
    /\ (Validated /\ NonBlank(name) /\ InLimit(name)
            /\ OnlyNameChars(name) /\ KeywordsOnlyInside(name)) =>
                result.is_valid

\* C6 as amended: a keyword delimited on both sides by the start or end of
\* the input, a space or a hyphen is rejected with the invalid-characters
\* message, and an input of ASCII letters, digits, hyphens and spaces
\* without two adjacent hyphens, whose keywords all lie inside longer runs
\* of letters or digits, is accepted.
C6_KeywordsStandaloneNoDoubleHyphen ==
    /\ C6_StandaloneRejected
    /\ (Validated /\ NonBlank(name) /\ InLimit(name)
            /\ OnlyNameChars(name) /\ KeywordsOnlyInside(name)
            /\ ~\E i \in 1..(Len(name) - 1) : name[i] = 45 /\ name[i + 1] = 45) =>
                result.is_valid

C6_Witness ==
    /\ pc = "validated"
    /\ OnlyNameChars(name)
    /\ \E w \in SQL_KEYWORDS : \E i \in 1..Len(name) : KeywordAt(w, name, i)
    /\ KeywordsOnlyInside(name)
    /\ result.is_valid

\* C7: validating an accepted sanitized name again accepts it and returns
\* it unchanged.
C7_Idempotent ==
    pc = "revalidated" =>
        /\ again.is_valid
        /\ again.sanitized_name = result.sanitized_name

C7_Witness ==
    /\ pc = "revalidated"
    /\ result.sanitized_name # name
    /\ again.sanitized_name = result.sanitized_name

----------------------------------------------------------------------------
(* Properties of the callers, checked under AppSpec *)

Started == 1..Len(threads)

\* C8: a GET is issued, and a fetch thread started, only for an input the
\* validator accepted, and the path segment is the sanitized name.
C8_OnlySanitizedRequested ==
    /\ \A i \in Started :
            /\ validate_pokemon_name(threads[i].raw).is_valid
            /\ threads[i].name =
                    validate_pokemon_name(threads[i].raw).sanitized_name
    /\ \A g \in http_gets :
            /\ validate_pokemon_name(g.raw).is_valid
            /\ g.url.base = BASE_URL
            /\ g.url.segment = validate_pokemon_name(g.raw).sanitized_name
            /\ g.caller = "gui" =>
                    g.thread \in Started /\ g.raw = threads[g.thread].raw
            /\ g.caller = "script" => g.raw = script_name
    /\ (script_pc = "done" /\ ~validate_pokemon_name(script_name).is_valid) =>
            http_gets = {} /\ script_return = "None"

C8_Witness ==
    \E g \in http_gets :
        /\ g.caller = "gui"
        /\ g.url.segment # g.raw
        /\ ~validate_pokemon_name(search_entry).is_valid
        /\ status_label = MsgDangerous

\* the fetches started whose completion callbacks have not all run
InFlight == {i \in Started : i \notin completed}

\* C9: at most one fetch is in flight at a time.
C9_AtMostOneInFlight == Cardinality(InFlight) <= 1

Responded(i) == i \in Started /\ threads[i].pc \notin {"start", "waiting"}

=============================================================================
